---- MODULE Spec2Model ----
(***************************************************************************)
(* The action-loop engine of the launch agent: the setup loop              *)
(* (launch/agent/setup.py) and the verify loop (git_launch/agent/verify.py)*)
(* with their reply parsers, observation builders and the auto_catch       *)
(* wrapper (git_launch/agent/state.py).                                    *)
(*                                                                         *)
(* Text is modelled as a sequence of tokens.  A tag such as "<command>" is *)
(* one token, so substring tests and str.split on a tag become membership  *)
(* and splitting of the token sequence.                                    *)
(***************************************************************************)
EXTENDS Integers, Sequences, FiniteSets, TLC

VARIABLES
    loop,                 \* which stage runs: "setup" or "verify"
    max_steps,            \* the max_steps argument
    pc,                   \* "entry", "head" (while test), "invoke" (blocked in llm.invoke), "done"
    step,                 \* local step
    messages,             \* local messages
    prefix_messages,      \* local prefix_messages
    commands,             \* local commands
    input_messages,       \* local input_messages (the prompt of the current iteration)
    success,              \* local success (verify)
    issue,                \* local issue (verify)
    result,               \* what the wrapped stage returned to the workflow
    state_exception,      \* state["exception"]
    state_session,        \* state["session"]
    state_verify_messages,\* state["verify_messages"]
    state_setup_messages, \* state["setup_messages"]
    state_trials,         \* state["trials"]
    state_start_time,     \* state["start_time"]
    now,                  \* time.time()
    invocations,          \* number of llm.invoke calls made by this execution
    sent,                 \* commands sent to the session and queries sent to the search tool, in order
    returned,             \* what the session and the search tool returned, in order
    acts,                 \* the parsed action of every reply received, in order
    raised,               \* the exception the stage's body raised, "None" if it raised none
    \* utilities/llm.py: LLMProvider.invoke, one call per caller
    log_folder,           \* self.log_folder: "None" or the folder
    files,                \* the numbers n such that n.md exists in the log folder
    writes,               \* the pairs <<caller, n>>: caller wrote its record to n.md
    cl_pc,                \* per caller: "idle", "prepare", "attempt", "sleep", "write", "returned", "raised"
    attempt,              \* per caller: tenacity's attnumber
    failed,               \* per caller: the attempts that raised
    delay,                \* per caller: the last sleep between two attempts
    slept,                \* per caller: the number of sleeps
    next_number,          \* per caller: local next_number
    cl_response,          \* per caller: the reply invoke returned (the number of the attempt that gave it)
    cl_raised,            \* per caller: the exception invoke raised, "None" if none
    \* one application of a reply parser
    parse_grammar,        \* "setup" or "verify"
    parse_variant,        \* the variant the input was rendered from, "raw" for free text
    parse_arg,            \* the argument text the input was rendered from
    parse_input,          \* the reply text given to the parser
    parse_pc,             \* "input", "parsed"
    parse_output,         \* the action the parser returned
    \* the reasoning trace cut from one reply
    reply_raw,            \* response.content as the oracle gave it
    reply_pc,             \* "raw", "stripped", "failed"
    reply_content,        \* response.content after lines 166-167
    \* agent/base_image.py: select_base_image
    img_pc,               \* "entry", "head" (while test), "invoke" (blocked in llm.invoke), "done"
    img_language,         \* state["language"]
    img_trials,           \* local trials
    img_base_image,       \* local base_image, "None" while none is chosen
    img_messages,         \* local messages
    img_invocations,      \* number of llm.invoke calls made
    img_result,           \* what the wrapped function returned
    \* swe_task_crawling/utils.py: wrapped_requests_get
    rq_pc,                \* "head" (while test), "get" (in requests.get), "sleep", "done"
    rq_max_retries,       \* parameter max_retries
    rq_attempt,           \* local attempt
    rq_log,               \* what happened so far: the outcome of each request, and "sleep"
    rq_result             \* "pending", "response", "None" or "raised"

vars == <<loop, max_steps, pc, step, messages, prefix_messages, commands,
          input_messages, success, issue, result, state_exception,
          state_session, state_verify_messages, state_setup_messages, state_trials,
          state_start_time, now, invocations, sent, returned, acts, raised,
          log_folder, files, writes, cl_pc, attempt, failed, delay, slept,
          next_number, cl_response, cl_raised,
          parse_grammar, parse_variant, parse_arg, parse_input, parse_pc,
          parse_output, reply_raw, reply_pc, reply_content,
          img_pc, img_language, img_trials, img_base_image, img_messages,
          img_invocations, img_result,
          rq_pc, rq_max_retries, rq_attempt, rq_log, rq_result>>

\* the variables of one stage execution
loopVars == <<loop, max_steps, pc, step, messages, prefix_messages, commands,
              input_messages, success, issue, result, state_exception,
              state_session, state_verify_messages, state_setup_messages, state_trials,
              state_start_time, now, invocations, sent, returned, acts, raised>>

\* the variables of the oracle client
clientVars == <<log_folder, files, writes, cl_pc, attempt, failed, delay, slept,
                next_number, cl_response, cl_raised>>

\* the variables of one parser application
parseVars == <<parse_grammar, parse_variant, parse_arg, parse_input, parse_pc,
               parse_output>>

\* the variables of one reply whose reasoning trace is cut
replyVars == <<reply_raw, reply_pc, reply_content>>

\* the variables of one execution of select_base_image
imageVars == <<img_pc, img_language, img_trials, img_base_image, img_messages,
               img_invocations, img_result>>

\* the variables of one call of wrapped_requests_get
requestVars == <<rq_pc, rq_max_retries, rq_attempt, rq_log, rq_result>>

\* what a stage execution leaves alone
outsideLoop == <<clientVars, parseVars, replyVars, imageVars, requestVars>>

----------------------------------------------------------------------------
(* Bounds of the model *)

MaxStepsBound == 3          \* max_steps ranges over 0..MaxStepsBound
TickSecs == 900             \* granularity of the clock
MaxTicks == 3               \* the clock stops advancing after MaxTicks ticks

(* Program constants *)

SETUP_CONVERSATION_WINDOW == 5
VERIFY_CONVERSATION_WINDOW == 10
GLOBAL_TIMEOUT == 30 * 60

None == <<"PyNone">>        \* Python's None where a text is expected

----------------------------------------------------------------------------
(* Python string operations on token sequences *)

Contains(s, t) == \E i \in 1..Len(s) : s[i] = t

\* index of the first occurrence of t in s, 0 when absent
IndexOf(s, t) ==
    IF Contains(s, t)
    THEN CHOOSE i \in 1..Len(s) : s[i] = t /\ \A j \in 1..(i-1) : s[j] # t
    ELSE 0

\* s.split(t)[0]
Split0(s, t) ==
    IF Contains(s, t) THEN SubSeq(s, 1, IndexOf(s, t) - 1) ELSE s

\* the text after the first occurrence of t (t must occur)
AfterFirst(s, t) == SubSeq(s, IndexOf(s, t) + 1, Len(s))

\* s.split(t)[1]; only defined when t occurs in s (IndexError otherwise)
Split1(s, t) == Split0(AfterFirst(s, t), t)

IsSpace(t) == t = " "

\* s.strip()
RECURSIVE LStrip(_)
LStrip(s) == IF s # <<>> /\ IsSpace(Head(s)) THEN LStrip(Tail(s)) ELSE s

RECURSIVE RStrip(_)
RStrip(s) ==
    IF s # <<>> /\ IsSpace(s[Len(s)]) THEN RStrip(SubSeq(s, 1, Len(s) - 1)) ELSE s

Strip(s) == RStrip(LStrip(s))

\* str.lower() of one token
LowerTok(t) ==
    CASE t = "NONE"   -> "none"
      [] t = "LibFoo" -> "libfoo"
      [] OTHER        -> t

\* s.lower()
Lower(s) == [i \in 1..Len(s) |-> LowerTok(s[i])]

----------------------------------------------------------------------------
(* Messages *)

SystemMessage(c) == [role |-> "system", content |-> c]
HumanMessage(c)  == [role |-> "human",  content |-> c]
AIMessage(c)     == [role |-> "ai",     content |-> c]

\* the history kept in a bounded buffer that drops its oldest message
AppendMessageBounded(msgs, m) ==
    IF Len(msgs) >= 4 THEN Append(Tail(msgs), m) ELSE Append(msgs, m)

\* messages.append(m)
AppendMessage(msgs, m) == Append(msgs, m)

\* messages[-n:] for n >= 1
LastN(s, n) == IF Len(s) <= n THEN s ELSE SubSeq(s, Len(s) - n + 1, Len(s))

\* ', '.join(commands)
RECURSIVE Join(_)
Join(cs) ==
    IF cs = <<>> THEN <<>>
    ELSE IF Len(cs) = 1 THEN cs[1]
    ELSE cs[1] \o <<", ">> \o Join(Tail(cs))

----------------------------------------------------------------------------
(* verify.py: actions, parser, observations *)

NoAction == [action |-> "none", args |-> None]    \* parse_*_action returned None

\* the issue text compared without case normalisation
parse_verify_action_no_lower(response) ==
    IF Contains(response, "<command>")
    THEN [action |-> "command",
          args   |-> Strip(Split0(Split1(response, "<command>"), "</command>"))]
    ELSE IF Contains(response, "<issue>")
    THEN [action |-> "issue",
          args   |-> Strip(Split0(Split1(response, "<issue>"), "</issue>"))]
    ELSE NoAction

\* the issue tag looked for before the command tag
parse_verify_action_issue_first(response) ==
    IF Contains(response, "<issue>")
    THEN [action |-> "issue",
          args   |-> Lower(Strip(Split0(Split1(response, "<issue>"), "</issue>")))]
    ELSE IF Contains(response, "<command>")
    THEN [action |-> "command",
          args   |-> Strip(Split0(Split1(response, "<command>"), "</command>"))]
    ELSE NoAction

parse_verify_action(response) ==
    IF Contains(response, "<command>")
    THEN [action |-> "command",
          args   |-> Strip(Split0(Split1(response, "<command>"), "</command>"))]
    ELSE IF Contains(response, "<issue>")
    THEN [action |-> "issue",
          args   |-> Lower(Strip(Split0(Split1(response, "<issue>"), "</issue>")))]
    ELSE NoAction

\* The clarification text; VerifyAction.__doc__ / SetupAction.__doc__ follow it
FormatGuidance == <<"Please using following format">>

\* observation_for_verify_action for the actions that do not touch the session
VerifyIssueObservation(action) ==
    IF action.args = <<"none">>
    THEN [content |-> <<>>]
    ELSE [content |-> action.args]

\* observation_for_verify_action; cmd_out is what session.send_command(...).to_observation() gave
observation_for_verify_action(action, cmd_out) ==
    IF action.action = "none" THEN [content |-> FormatGuidance]
    ELSE IF action.action = "command" THEN [content |-> cmd_out]
    ELSE VerifyIssueObservation(action)

----------------------------------------------------------------------------
(* setup.py: parser and observations *)

\* ActionParser.clean_response: keep only the content following the reasoning delimiter
clean_response(response) ==
    IF Contains(response, "</think>") THEN AfterFirst(response, "</think>") ELSE response

\* ActionParser.extract_tag_content: the content of the first well-formed tag pair
extract_tag_content(response, open, close) ==
    IF Contains(response, open) /\ Contains(AfterFirst(response, open), close)
    THEN [found |-> TRUE,  text |-> Split0(AfterFirst(response, open), close)]
    ELSE [found |-> FALSE, text |-> None]

\* Python truthiness of a str | None
Truthy(x) == x.found /\ x.text # <<>>

\* SetupActionParser.parse
SetupActionParser_parse(response0) ==
    LET response == clean_response(response0)
        command  == extract_tag_content(response, "<command>", "</command>")
        search   == extract_tag_content(response, "<search>", "</search>")
    IN  IF Truthy(command) THEN [action |-> "command", args |-> command.text]
        ELSE IF Truthy(search) THEN [action |-> "search", args |-> search.text]
        ELSE IF Contains(response, "<stop>") /\ Contains(response, "</stop>")
             THEN [action |-> "stop", args |-> None]
        ELSE NoAction

parse_setup_action(response) == SetupActionParser_parse(response)

\* stop handled like any other action
observation_for_setup_action_never_stops(action, tool_out) ==
    IF action.action = "none"
    THEN [content |-> FormatGuidance, is_stop |-> FALSE]
    ELSE [content |-> tool_out, is_stop |-> FALSE]

\* a command that failed in the session taken as the end of the loop
observation_for_setup_action_stop_on_failure(action, tool_out) ==
    IF action.action = "none"
    THEN [content |-> FormatGuidance, is_stop |-> FALSE]
    ELSE IF action.action = "command"
         THEN [content |-> tool_out, is_stop |-> Head(tool_out) # "exit 0"]
    ELSE IF action.action = "search"  THEN [content |-> tool_out, is_stop |-> FALSE]
    ELSE [content |-> <<>>, is_stop |-> TRUE]

\* observation_for_setup_action; tool_out is the text the session or the search tool gave
observation_for_setup_action(action, tool_out) ==
    IF action.action = "none"
    THEN [content |-> FormatGuidance, is_stop |-> FALSE]
    ELSE IF action.action = "command" THEN [content |-> tool_out, is_stop |-> FALSE]
    ELSE IF action.action = "search"  THEN [content |-> tool_out, is_stop |-> FALSE]
    ELSE [content |-> <<>>, is_stop |-> TRUE]

----------------------------------------------------------------------------
(* state.py: auto_catch *)

Pending == [kind |-> "pending"]                      \* the stage has not returned yet

\* the classes `except Exception` does not catch
BaseExceptionsOnly == {"KeyboardInterrupt", "SystemExit", "GeneratorExit"}

\* a handler that catches too little: TimeoutError (an OSError) escapes
auto_catch_except_narrow(e) ==
    IF e \in BaseExceptionsOnly \cup {"TimeoutError"}
    THEN [kind |-> "propagated", exception |-> e]
    ELSE [kind |-> "exception", exception |-> e]

\* the wrapped function raised e
auto_catch_except(e) ==
    IF e \in BaseExceptionsOnly
    THEN [kind |-> "propagated", exception |-> e]
    ELSE [kind |-> "exception", exception |-> e]

\* the wrapped function returned d
auto_catch_return(d) == d

----------------------------------------------------------------------------
(* The collaborators *)

\* result.to_observation() of a command that ran: exit status 0 or not
CommandOutputs == { <<"exit 0">>, <<"exit 1", "stderr">> }

\* json.dumps(result) of a search
SearchOutputs == { <<"[json]">> }

\* the replies the oracle gives in the verify loop
VerifyReplies ==
    { <<"<command>", "pytest", "</command>">>,
      <<"<issue>", "none", "</issue>">>,
      <<"Thought", "<issue>", " ", "NONE", " ", "</issue>">>,
      <<"<issue>", "missing", "LibFoo", "</issue>">>,
      <<"<issue>", "</issue>">>,
      <<"I am not sure">>,
      <<"<command>", "tox", "</command>", "<issue>", "none", "</issue>">>,
      <<"<issue>", "none", "</issue>", "<command>", "tox", "</command>">>,
      <<"<think>", "plan", "</think>", "<issue>", "NONE", "</issue>">>,
      <<"<think>", "<issue>", "none", "</issue>">> }

\* the replies the oracle gives in the setup loop
SetupReplies ==
    { <<"<command>", "pip install", "</command>">>,
      <<"Thought", "<command>", "make", "</command>", "<stop>", "</stop>">>,
      <<"<search>", "how to", "</search>">>,
      <<"<stop>", "</stop>">>,
      <<"I am not sure">>,
      <<"<command>", "</command>", "<stop>", "</stop>">> }

\* state["setup_messages"] left by an earlier setup round
EarlierSetupMessages ==
    << AIMessage(<<"<command>", "pip install", "</command>">>),
       HumanMessage(<<"Observation:", "exit 0">>),
       AIMessage(<<"<stop>", "</stop>">>) >>

\* state["verify_messages"] left by an earlier verify round, if any
EarlierVerifyMessages ==
    << AIMessage(<<"<issue>", "missing", "libfoo", "</issue>">>),
       HumanMessage(<<"Observation:", "missing", "libfoo">>) >>

----------------------------------------------------------------------------
(* The parts of the system that a specification does not exercise stay idle *)

\* the callers of LLMProvider.invoke that may overlap
Callers == {"a", "b"}

ClientIdle ==
    /\ log_folder = "None"
    /\ files = {}
    /\ writes = {}
    /\ cl_pc = [c \in Callers |-> "idle"]
    /\ attempt = [c \in Callers |-> 0]
    /\ failed = [c \in Callers |-> 0]
    /\ delay = [c \in Callers |-> 0]
    /\ slept = [c \in Callers |-> 0]
    /\ next_number = [c \in Callers |-> 0]
    /\ cl_response = [c \in Callers |-> 0]
    /\ cl_raised = [c \in Callers |-> "None"]

ParseIdle ==
    /\ parse_grammar = "setup"
    /\ parse_variant = "raw"
    /\ parse_arg = <<>>
    /\ parse_input = <<>>
    /\ parse_pc = "off"
    /\ parse_output = NoAction

RequestsIdle ==
    /\ rq_pc = "off"
    /\ rq_max_retries = 0
    /\ rq_attempt = 0
    /\ rq_log = <<>>
    /\ rq_result = "pending"

ImageIdle ==
    /\ img_pc = "off"
    /\ img_language = "python"
    /\ img_trials = 0
    /\ img_base_image = "None"
    /\ img_messages = <<>>
    /\ img_invocations = 0
    /\ img_result = Pending

ReplyIdle ==
    /\ reply_raw = <<>>
    /\ reply_pc = "off"
    /\ reply_content = <<>>

LoopIdle ==
    /\ loop = "setup"
    /\ max_steps = 0
    /\ pc = "off"
    /\ step = 0
    /\ messages = <<>>
    /\ prefix_messages = 0
    /\ commands = <<>>
    /\ input_messages = <<>>
    /\ success = FALSE
    /\ issue = None
    /\ result = Pending
    /\ state_exception = "None"
    /\ state_session = "live"
    /\ state_verify_messages = <<>>
    /\ state_setup_messages = <<>>
    /\ state_trials = 0
    /\ state_start_time = 0
    /\ now = 0
    /\ invocations = 0
    /\ sent = <<>>
    /\ returned = <<>>
    /\ acts = <<>>
    /\ raised = "None"

----------------------------------------------------------------------------
(* Initial state: the workflow enters one stage with the Agent State it has *)

LoopInit ==
    /\ loop \in {"setup", "verify"}
    /\ max_steps \in 0..MaxStepsBound
    /\ pc = "entry"
    /\ step = 0
    /\ messages = <<>>
    /\ prefix_messages = 0
    /\ commands = <<>>
    /\ input_messages = <<>>
    /\ success = FALSE
    /\ issue = None
    /\ result = Pending
    \* an earlier stage either went well, or raised (before or after the session existed)
    /\ \E s \in { <<"None", "live">>, <<"UpstreamError", "live">>, <<"UpstreamError", "None">> } :
          /\ state_exception = s[1]
          /\ state_session = s[2]
    /\ \E t \in {0, 1} :
          /\ state_trials = t
          /\ state_verify_messages = IF t = 0 THEN <<>> ELSE EarlierVerifyMessages
          \* verify comes after a setup round, a second setup round after a first
          /\ state_setup_messages =
                IF loop = "setup" /\ t = 0 THEN <<>> ELSE EarlierSetupMessages
    /\ state_start_time = 0
    /\ now = 0
    /\ invocations = 0
    /\ sent = <<>>
    /\ returned = <<>>
    /\ acts = <<>>
    /\ raised = "None"

Init == LoopInit /\ ClientIdle /\ ParseIdle /\ ReplyIdle /\ ImageIdle /\ RequestsIdle

\* time.time() - state["start_time"]
Elapsed == now - state_start_time

\* time passes between the stage's iterations (and before the stage starts)
Tick ==
    /\ pc \in {"entry", "head"}
    /\ now < MaxTicks * TickSecs
    /\ now' = now + TickSecs
    /\ UNCHANGED <<loop, max_steps, pc, step, messages, prefix_messages, commands,
                   input_messages, success, issue, result, state_exception,
                   state_session, state_verify_messages, state_setup_messages,
                   state_trials, state_start_time, invocations, sent, returned, acts, raised>>
    /\ UNCHANGED outsideLoop

stateVars == <<state_exception, state_session, state_verify_messages,
               state_setup_messages, state_trials, state_start_time>>

\* an oracle failure swallowed inside the loop, which then goes on
RaiseButRetryOracle(e) ==
    IF e = "OracleUnavailable"
    THEN /\ pc' = "head"
         /\ raised' = e
         /\ result' = result
    ELSE /\ pc' = "done"
         /\ raised' = e
         /\ result' = auto_catch_except(e)

\* a handler that returns what the stage had accumulated along with the exception
RaiseKeepingHistory(e) ==
    /\ pc' = "done"
    /\ raised' = e
    /\ result' = IF e \in BaseExceptionsOnly
                 THEN auto_catch_except(e)
                 ELSE [kind |-> "exception", exception |-> e,
                       messages |-> messages, commands |-> commands]

\* the stage raised e: auto_catch turns it into the stage's result
Raise(e) ==
    /\ pc' = "done"
    /\ raised' = e
    /\ result' = auto_catch_except(e)

----------------------------------------------------------------------------
(* verify.py: verify *)

VerifyPrefix == << SystemMessage(<<"verify system_msg">>), HumanMessage(<<"ReAct_prompt">>) >>

\* the issue text left out of the result
VerifyResultWithoutIssue(msgs, cmds, succ, iss) ==
    [kind            |-> "return",
     messages        |-> msgs,
     verify_messages |-> SubSeq(msgs, prefix_messages + 1, Len(msgs)),
     test_commands   |-> cmds,
     commands        |-> cmds,
     trials          |-> state_trials + 1,
     success         |-> succ,
     issue           |-> None]

\* lines 188-198
VerifyResult(msgs, cmds, succ, iss) ==
    [kind            |-> "return",
     messages        |-> msgs,
     verify_messages |-> SubSeq(msgs, prefix_messages + 1, Len(msgs)),
     test_commands   |-> cmds,
     commands        |-> cmds,
     trials          |-> state_trials + 1,
     success         |-> succ,
     issue           |-> iss]

\* the history seeded with the setup stage's messages
VerifyEntrySeeded ==
    /\ loop = "verify" /\ pc = "entry"
    /\ IF state_exception # "None"
       THEN /\ Raise(state_exception)
            /\ UNCHANGED <<messages, prefix_messages>>
       ELSE /\ messages' = VerifyPrefix \o state_setup_messages
            /\ prefix_messages' = Len(VerifyPrefix)
            /\ pc' = "head"
            /\ UNCHANGED <<result, raised>>
    /\ UNCHANGED <<loop, max_steps, step, commands, input_messages, success, issue,
                   now, invocations, sent, returned, acts>>
    /\ UNCHANGED stateVars
    /\ UNCHANGED outsideLoop

\* lines 128-154
VerifyEntry ==
    /\ loop = "verify" /\ pc = "entry"
    /\ IF state_exception # "None"
       THEN /\ Raise(state_exception)
            /\ UNCHANGED <<messages, prefix_messages>>
       ELSE /\ messages' = VerifyPrefix
            /\ prefix_messages' = Len(VerifyPrefix)
            /\ pc' = "head"
            /\ UNCHANGED <<result, raised>>
    /\ UNCHANGED <<loop, max_steps, step, commands, input_messages, success, issue,
                   now, invocations, sent, returned, acts>>
    /\ UNCHANGED stateVars
    /\ UNCHANGED outsideLoop

\* the whole history sent, whatever its length
VerifyWindowWholeHistory(msgs, prefix) == msgs

\* lines 158-163
VerifyWindow(msgs, prefix) ==
    IF Len(msgs) < VERIFY_CONVERSATION_WINDOW + prefix
    THEN msgs
    ELSE SubSeq(msgs, 1, prefix) \o LastN(msgs, VERIFY_CONVERSATION_WINDOW)

\* the while test off by one
VerifyLoopTestOffByOne(stp, max) == stp <= max

\* line 155: the while test
VerifyLoopTest(stp, max) == stp < max

\* lines 155-163 up to the oracle call, or the normal exit of the while loop
VerifyHead ==
    /\ loop = "verify" /\ pc = "head"
    /\ IF VerifyLoopTest(step, max_steps)
       THEN /\ step' = step + 1
            /\ input_messages' = VerifyWindow(messages, prefix_messages)
            /\ pc' = "invoke"
            /\ UNCHANGED <<result, raised>>
       ELSE /\ pc' = "done"
            /\ result' = auto_catch_return(VerifyResult(messages, commands, success, issue))
            /\ UNCHANGED raised
            /\ UNCHANGED <<step, input_messages>>
    /\ UNCHANGED <<loop, max_steps, messages, prefix_messages, commands, success, issue,
                   now, invocations, sent, returned, acts>>
    /\ UNCHANGED stateVars
    /\ UNCHANGED outsideLoop

\* lines 166-167: drop the reasoning trace; ok = FALSE is the IndexError of split(...)[1]
VerifyStripThink(content) ==
    IF Contains(content, "<think>")
    THEN IF Contains(content, "</think>")
         THEN [ok |-> TRUE,  content |-> Split1(content, "</think>")]
         ELSE [ok |-> FALSE, content |-> content]
    ELSE [ok |-> TRUE, content |-> content]

\* lines 164-186 for one reply of the oracle, then lines 188-198 when the loop breaks
VerifyStep(reply) ==
    LET stripped == VerifyStripThink(reply)
        content  == stripped.content
        msgs1    == AppendMessage(messages, AIMessage(content))
        action   == parse_verify_action(content)
    IN
    IF ~stripped.ok
    THEN /\ Raise("IndexError")
         /\ UNCHANGED <<messages, commands, success, issue, sent, returned, acts>>
    ELSE IF action.action = "none"
    THEN \* line 172: None has no attribute "action"
         /\ Raise("AttributeError")
         /\ messages' = msgs1
         /\ acts' = Append(acts, action)
         /\ UNCHANGED <<commands, success, issue, sent, returned>>
    ELSE IF action.action = "command"
    THEN /\ commands' = Append(commands, action.args)
         /\ acts' = Append(acts, action)
         /\ UNCHANGED <<success, issue>>
         /\ IF state_session = "None"
            THEN \* line 104: None has no attribute "send_command"
                 /\ Raise("AttributeError")
                 /\ messages' = msgs1
                 /\ UNCHANGED <<sent, returned>>
            ELSE /\ sent' = Append(sent, action.args)
                 /\ \/ /\ Raise("SessionError")
                       /\ messages' = msgs1
                       /\ UNCHANGED returned
                    \/ \E out \in CommandOutputs :
                         LET observation == observation_for_verify_action(action, out)
                         IN /\ returned' = Append(returned, out)
                            /\ messages' = AppendMessage(msgs1,
                                   HumanMessage(<<"Observation:">> \o observation.content))
                            /\ pc' = "head"
                            /\ UNCHANGED <<result, raised>>
    ELSE \* issue
         LET observation == observation_for_verify_action(action, <<>>)
             msgs2 == AppendMessage(msgs1, HumanMessage(<<"Observation:">> \o observation.content))
             succ  == observation.content = <<>>
             iss   == IF succ THEN issue ELSE observation.content
         IN /\ messages' = msgs2
            /\ acts' = Append(acts, action)
            /\ success' = succ
            /\ issue' = iss
            /\ pc' = "done"
            /\ result' = auto_catch_return(VerifyResult(msgs2, commands, succ, iss))
            /\ UNCHANGED raised
            /\ UNCHANGED <<commands, sent, returned>>

\* line 164: llm.invoke returns a reply or raises after its retries
VerifyInvoke ==
    /\ loop = "verify" /\ pc = "invoke"
    /\ invocations' = invocations + 1
    /\ \/ /\ Raise("OracleUnavailable")
          /\ UNCHANGED <<messages, commands, success, issue, sent, returned, acts>>
       \/ \E reply \in VerifyReplies : VerifyStep(reply)
    /\ UNCHANGED <<loop, max_steps, step, prefix_messages, input_messages, now>>
    /\ UNCHANGED stateVars
    /\ UNCHANGED outsideLoop

----------------------------------------------------------------------------
(* setup.py: setup *)

SetupPrefix == << SystemMessage(<<"setup system_msg">>), HumanMessage(<<"ReAct_prompt">>) >>

\* the prefix left out of the returned history
SetupResultWithoutPrefix(msgs, cmds) ==
    [kind           |-> "return",
     messages       |-> SubSeq(msgs, prefix_messages + 1, Len(msgs)),
     setup_messages |-> SubSeq(msgs, prefix_messages + 1, Len(msgs)),
     setup_commands |-> cmds,
     commands       |-> cmds]

\* lines 243-248
SetupResult(msgs, cmds) ==
    [kind           |-> "return",
     messages       |-> msgs,
     setup_messages |-> SubSeq(msgs, prefix_messages + 1, Len(msgs)),
     setup_commands |-> cmds,
     commands       |-> cmds]

\* lines 176-203
SetupEntry ==
    /\ loop = "setup" /\ pc = "entry"
    /\ messages' = SetupPrefix \o state_verify_messages
    /\ prefix_messages' = Len(SetupPrefix \o state_verify_messages)
    /\ pc' = "head"
    /\ UNCHANGED <<loop, max_steps, step, commands, input_messages, success, issue,
                   result, raised, now, invocations, sent, returned, acts>>
    /\ UNCHANGED stateVars
    /\ UNCHANGED outsideLoop

\* lines 209-211
CommandsHistory(cmds) ==
    HumanMessage(<<"The commands you have run:">> \o Join(cmds) \o <<"Following are the last messages:">>)

\* the last W messages taken without looking at the length of the history
SetupWindowAlwaysSliced(msgs, prefix, cmds) ==
    SubSeq(msgs, 1, prefix) \o <<CommandsHistory(cmds)>>
        \o LastN(msgs, SETUP_CONVERSATION_WINDOW)

\* lines 212-223
SetupWindow(msgs, prefix, cmds) ==
    IF Len(msgs) < SETUP_CONVERSATION_WINDOW + prefix
    THEN SubSeq(msgs, 1, prefix) \o <<CommandsHistory(cmds)>>
            \o SubSeq(msgs, prefix + 1, Len(msgs))
    ELSE SubSeq(msgs, 1, prefix) \o <<CommandsHistory(cmds)>>
            \o LastN(msgs, SETUP_CONVERSATION_WINDOW)

\* the while test off by one
SetupLoopTestOffByOne(stp, max) == stp <= max

\* line 204: the while test
SetupLoopTest(stp, max) == stp < max

\* the budget taken as 30 * 60 minutes instead of seconds
TimedOutWrongUnit(elapsed) == elapsed > GLOBAL_TIMEOUT * 60

\* line 205
TimedOut(elapsed) == elapsed > GLOBAL_TIMEOUT

\* every parsed action recorded as a command
RecordCommandAnyAction(cmds, action) ==
    IF action.action # "none" THEN Append(cmds, action.args) ELSE cmds

\* a command already in the list not recorded again
RecordCommandOnce(cmds, action) ==
    IF action.action = "command" /\ ~Contains(cmds, action.args)
    THEN Append(cmds, action.args) ELSE cmds

\* lines 232-233
RecordCommand(cmds, action) ==
    IF action.action = "command" THEN Append(cmds, action.args) ELSE cmds

\* the iteration started again, step unchanged, while the budget is exceeded
SetupHeadSpinsOnTimeout ==
    /\ loop = "setup" /\ pc = "head"
    /\ IF SetupLoopTest(step, max_steps)
       THEN IF TimedOut(Elapsed)
            THEN UNCHANGED <<pc, result, raised, step, input_messages>>
            ELSE /\ step' = step + 1
                 /\ input_messages' = SetupWindow(messages, prefix_messages, commands)
                 /\ pc' = "invoke"
                 /\ UNCHANGED <<result, raised>>
       ELSE /\ pc' = "done"
            /\ result' = auto_catch_return(SetupResult(messages, commands))
            /\ UNCHANGED raised
            /\ UNCHANGED <<step, input_messages>>
    /\ UNCHANGED <<loop, max_steps, messages, prefix_messages, commands, success, issue,
                   now, invocations, sent, returned, acts>>
    /\ UNCHANGED stateVars
    /\ UNCHANGED outsideLoop

\* lines 204-223 up to the oracle call, or the normal exit of the while loop
SetupHead ==
    /\ loop = "setup" /\ pc = "head"
    /\ IF SetupLoopTest(step, max_steps)
       THEN IF TimedOut(Elapsed)
            THEN /\ Raise("TimeoutError")
                 /\ UNCHANGED <<step, input_messages>>
            ELSE /\ step' = step + 1
                 /\ input_messages' = SetupWindow(messages, prefix_messages, commands)
                 /\ pc' = "invoke"
                 /\ UNCHANGED <<result, raised>>
       ELSE /\ pc' = "done"
            /\ result' = auto_catch_return(SetupResult(messages, commands))
            /\ UNCHANGED raised
            /\ UNCHANGED <<step, input_messages>>
    /\ UNCHANGED <<loop, max_steps, messages, prefix_messages, commands, success, issue,
                   now, invocations, sent, returned, acts>>
    /\ UNCHANGED stateVars
    /\ UNCHANGED outsideLoop

\* lines 230-240 for one reply of the oracle, then lines 242-248 when the loop breaks
SetupStep(reply) ==
    LET msgs1    == AppendMessage(messages, AIMessage(reply))
        action   == parse_setup_action(reply)
        commands1 == RecordCommand(commands, action)
    IN
    /\ acts' = Append(acts, action)
    /\ commands' = commands1
    /\ IF action.action = "command" /\ state_session = "None"
       THEN \* line 110: None has no attribute "send_command"
            /\ Raise("AttributeError")
            /\ messages' = msgs1
            /\ UNCHANGED <<sent, returned>>
       ELSE /\ sent' = IF action.action \in {"command", "search"}
                       THEN Append(sent, action.args) ELSE sent
            /\ \/ /\ action.action \in {"command", "search"}
                  /\ Raise(IF action.action = "command" THEN "SessionError" ELSE "SearchError")
                  /\ messages' = msgs1
                  /\ UNCHANGED returned
               \/ \E out \in (IF action.action = "command" THEN CommandOutputs
                              ELSE IF action.action = "search" THEN SearchOutputs
                              ELSE {<<>>}) :
                    LET observation == observation_for_setup_action(action, out)
                    IN /\ returned' = IF action.action \in {"command", "search"}
                                       THEN Append(returned, out) ELSE returned
                       /\ IF observation.is_stop
                          THEN /\ messages' = msgs1
                               /\ pc' = "done"
                               /\ result' = auto_catch_return(SetupResult(msgs1, commands1))
                               /\ UNCHANGED raised
                          ELSE /\ messages' = AppendMessage(msgs1,
                                      HumanMessage(<<"Observation:">> \o observation.content))
                               /\ pc' = "head"
                               /\ UNCHANGED <<result, raised>>

\* line 225: llm.invoke returns a reply or raises after its retries
SetupInvoke ==
    /\ loop = "setup" /\ pc = "invoke"
    /\ invocations' = invocations + 1
    /\ \/ /\ Raise("OracleUnavailable")
          /\ UNCHANGED <<messages, commands, sent, returned, acts>>
       \/ \E reply \in SetupReplies : SetupStep(reply)
    /\ UNCHANGED <<loop, max_steps, step, prefix_messages, input_messages, success, issue, now>>
    /\ UNCHANGED stateVars
    /\ UNCHANGED outsideLoop

----------------------------------------------------------------------------
(* utilities/llm.py: LLMProvider.invoke under logged_invoke and tenacity's retry *)

STOP_AFTER_ATTEMPT == 5     \* stop_after_attempt(5)
WAIT_INITIAL == 5           \* wait_exponential_jitter(initial=5, ...)
WAIT_MAX == 120             \* wait_exponential_jitter(..., max=120, ...)
WAIT_JITTER == 3            \* wait_exponential_jitter(..., jitter=3)

Min(a, b) == IF a <= b THEN a ELSE b

SetMax(ns) == CHOOSE n \in ns : \A m \in ns : m <= n

\* the retry goes on after one attempt too many
StopAfterAttemptOneMore(n) == n > STOP_AFTER_ATTEMPT

\* stop_after_attempt(5): no retry once attnumber has reached 5
StopAfterAttempt(n) == n >= STOP_AFTER_ATTEMPT

\* wait_exponential_jitter: the sleep after attempt n failed, with j drawn from 0..jitter
Wait(n, j) == Min(WAIT_INITIAL * 2^(n - 1) + j, WAIT_MAX)

\* lines 30-34
NextNumber(existing) == IF existing = {} THEN 0 ELSE SetMax(existing) + 1

\* the log folders a provider can start with: empty, 0.md, 0.md and 1.md, 3.md alone
LogFolders == { {}, {0}, {0, 1}, {3} }

InitInvoke ==
    /\ LoopIdle
    /\ ParseIdle
    /\ ReplyIdle
    /\ ImageIdle
    /\ RequestsIdle
    /\ log_folder \in {"None", "logs"}
    /\ files \in LogFolders
    /\ writes = {}
    /\ cl_pc = [c \in Callers |-> "idle"]
    /\ attempt = [c \in Callers |-> 0]
    /\ failed = [c \in Callers |-> 0]
    /\ delay = [c \in Callers |-> 0]
    /\ slept = [c \in Callers |-> 0]
    /\ next_number = [c \in Callers |-> 0]
    /\ cl_response = [c \in Callers |-> 0]
    /\ cl_raised = [c \in Callers |-> "None"]

\* invoke raised e to its caller
ClientRaise(c, e) ==
    /\ cl_pc' = [cl_pc EXCEPT ![c] = "raised"]
    /\ cl_raised' = [cl_raised EXCEPT ![c] = e]

\* line 23: the wrapper is entered
Call(c) ==
    /\ cl_pc[c] = "idle"
    /\ cl_pc' = [cl_pc EXCEPT ![c] = IF log_folder = "None" THEN "attempt" ELSE "prepare"]
    /\ UNCHANGED <<log_folder, files, writes, attempt, failed, delay, slept,
                   next_number, cl_response, cl_raised>>
    /\ UNCHANGED <<loopVars, parseVars, replyVars, imageVars, requestVars>>

\* lines 27-35: create and list the folder, choose the record's number
Prepare(c) ==
    /\ cl_pc[c] = "prepare"
    /\ \/ /\ ClientRaise(c, "OSError")        \* os.makedirs or os.listdir failed
          /\ UNCHANGED next_number
       \/ /\ next_number' = [next_number EXCEPT ![c] = NextNumber(files)]
          /\ cl_pc' = [cl_pc EXCEPT ![c] = "attempt"]
          /\ UNCHANGED cl_raised
    /\ UNCHANGED <<log_folder, files, writes, attempt, failed, delay, slept, cl_response>>
    /\ UNCHANGED <<loopVars, parseVars, replyVars, imageVars, requestVars>>

\* line 91 under @retry: one attempt against the underlying model
Attempt(c) ==
    /\ cl_pc[c] = "attempt"
    /\ attempt' = [attempt EXCEPT ![c] = @ + 1]
    /\ \/ \* the model answered: the reply of this attempt is the result
          /\ cl_response' = [cl_response EXCEPT ![c] = attempt[c] + 1]
          /\ cl_pc' = [cl_pc EXCEPT ![c] = IF log_folder = "None" THEN "returned" ELSE "write"]
          /\ UNCHANGED <<failed, cl_raised>>
       \/ \* the model raised
          /\ failed' = [failed EXCEPT ![c] = @ + 1]
          /\ UNCHANGED cl_response
          /\ IF StopAfterAttempt(attempt[c] + 1)
             THEN ClientRaise(c, "RetryError")
             ELSE /\ cl_pc' = [cl_pc EXCEPT ![c] = "sleep"]
                  /\ UNCHANGED cl_raised
    /\ UNCHANGED <<log_folder, files, writes, delay, slept, next_number>>
    /\ UNCHANGED <<loopVars, parseVars, replyVars, imageVars, requestVars>>

\* the wait between two attempts
Sleep(c) ==
    /\ cl_pc[c] = "sleep"
    /\ \E j \in 0..WAIT_JITTER : delay' = [delay EXCEPT ![c] = Wait(attempt[c], j)]
    /\ slept' = [slept EXCEPT ![c] = @ + 1]
    /\ cl_pc' = [cl_pc EXCEPT ![c] = "attempt"]
    /\ UNCHANGED <<log_folder, files, writes, attempt, failed, next_number,
                   cl_response, cl_raised>>
    /\ UNCHANGED <<loopVars, parseVars, replyVars, imageVars, requestVars>>

\* lines 39-44: write the record and return the reply
WriteLog(c) ==
    /\ cl_pc[c] = "write"
    /\ \/ /\ ClientRaise(c, "OSError")        \* open or write failed
          /\ UNCHANGED <<files, writes>>
       \/ /\ files' = files \cup {next_number[c]}
          /\ writes' = writes \cup {<<c, next_number[c]>>}
          /\ cl_pc' = [cl_pc EXCEPT ![c] = "returned"]
          /\ UNCHANGED cl_raised
    /\ UNCHANGED <<log_folder, attempt, failed, delay, slept, next_number, cl_response>>
    /\ UNCHANGED <<loopVars, parseVars, replyVars, imageVars, requestVars>>

NextInvoke ==
    \E c \in Callers :
        \/ Call(c)
        \/ Prepare(c)
        \/ Attempt(c)
        \/ Sleep(c)
        \/ WriteLog(c)

SpecInvoke == InitInvoke /\ [][NextInvoke]_vars

----------------------------------------------------------------------------
(* A stage that has already run k steps, each a command that the session ran *)

MaxHistorySteps == 6        \* the steps already run range over 0..MaxHistorySteps
MaxExtraSteps == 2          \* the steps still allowed range over 0..MaxExtraSteps

CommandReply(lp) ==
    IF lp = "setup" THEN <<"<command>", "pip install", "</command>">>
    ELSE <<"<command>", "pytest", "</command>">>

\* what k such steps append to the history
RECURSIVE StepMessages(_, _)
StepMessages(lp, k) ==
    IF k = 0 THEN <<>>
    ELSE StepMessages(lp, k - 1)
           \o << AIMessage(CommandReply(lp)), HumanMessage(<<"Observation:", "exit 0">>) >>

\* the actions parsed in k such steps
StepActs(lp, k) ==
    [i \in 1..k |-> IF lp = "setup" THEN parse_setup_action(CommandReply(lp))
                    ELSE parse_verify_action(CommandReply(lp))]

StagePrefix(lp, earlier) ==
    IF lp = "setup" THEN SetupPrefix \o earlier ELSE VerifyPrefix

\* the while loop is at its test after k command steps
InitWindow ==
    /\ ClientIdle
    /\ ParseIdle
    /\ ReplyIdle
    /\ ImageIdle
    /\ RequestsIdle
    /\ \E lp \in {"setup", "verify"}, k \in 0..MaxHistorySteps,
          extra \in 0..MaxExtraSteps, t \in {0, 1} :
         LET earlier == IF t = 0 THEN <<>> ELSE EarlierVerifyMessages
             prefix  == StagePrefix(lp, earlier)
             as      == StepActs(lp, k)
             cmds    == [i \in 1..k |-> as[i].args]
         IN /\ loop = lp
            /\ max_steps = k + extra
            /\ pc = "head"
            /\ step = k
            /\ messages = prefix \o StepMessages(lp, k)
            /\ prefix_messages = Len(prefix)
            /\ commands = cmds
            /\ input_messages =
                 IF k = 0 THEN <<>>
                 ELSE IF lp = "setup"
                 THEN SetupWindow(prefix \o StepMessages(lp, k - 1), Len(prefix),
                                  SubSeq(cmds, 1, k - 1))
                 ELSE VerifyWindow(prefix \o StepMessages(lp, k - 1), Len(prefix))
            /\ success = FALSE
            /\ issue = None
            /\ result = Pending
            /\ state_exception = "None"
            /\ state_session = "live"
            /\ state_trials = t
            /\ state_verify_messages = earlier
            /\ state_setup_messages =
                  IF lp = "setup" /\ t = 0 THEN <<>> ELSE EarlierSetupMessages
            /\ state_start_time = 0
            /\ now = 0
            /\ invocations = k
            /\ sent = cmds
            /\ returned = [i \in 1..k |-> <<"exit 0">>]
            /\ acts = as
            /\ raised = "None"

----------------------------------------------------------------------------
(* One application of a reply parser to a reply text *)

MaxReplyLen == 5            \* free reply texts have at most MaxReplyLen tokens
MaxArgLen == 2              \* argument texts have at most MaxArgLen tokens

\* the texts of at most n tokens over an alphabet
Texts(alphabet, n) == UNION { [1..k -> alphabet] : k \in 0..n }

SetupAlphabet ==
    {"<command>", "</command>", "<search>", "</search>", "<stop>", "</stop>", "x"}

VerifyAlphabet ==
    {"<command>", "</command>", "<issue>", "</issue>", "x", " ", "NONE"}

\* argument texts: no tag in them
ArgAlphabet == {"x", " ", "LibFoo"}

\* the variants of each grammar (SetupAction.action, VerifyAction.action)
Variants(g) == IF g = "setup" THEN {"command", "search", "stop"} ELSE {"command", "issue"}

\* the tag text of a variant, as SetupAction.__doc__ and VerifyAction.__doc__ give it
Render(variant, arg) ==
    CASE variant = "command" -> <<"<command>">> \o arg \o <<"</command>">>
      [] variant = "search"  -> <<"<search>">> \o arg \o <<"</search>">>
      [] variant = "issue"   -> <<"<issue>">> \o arg \o <<"</issue>">>
      [] variant = "stop"    -> <<"<stop>", "</stop>">>

InitParse ==
    /\ LoopIdle
    /\ ClientIdle
    /\ ReplyIdle
    /\ ImageIdle
    /\ RequestsIdle
    /\ parse_pc = "input"
    /\ parse_output = NoAction
    /\ parse_grammar \in {"setup", "verify"}
    /\ \/ \* a free text
          /\ parse_variant = "raw"
          /\ parse_arg = <<>>
          /\ parse_input \in Texts(IF parse_grammar = "setup" THEN SetupAlphabet
                                   ELSE VerifyAlphabet, MaxReplyLen)
       \/ \* the rendering of one variant
          /\ parse_variant \in Variants(parse_grammar)
          /\ parse_arg \in (IF parse_variant = "stop" THEN {<<>>}
                            ELSE Texts(ArgAlphabet, MaxArgLen))
          /\ parse_input = Render(parse_variant, parse_arg)

\* parse_setup_action(response.content)
ParseSetup ==
    /\ parse_pc = "input" /\ parse_grammar = "setup"
    /\ parse_output' = parse_setup_action(parse_input)
    /\ parse_pc' = "parsed"
    /\ UNCHANGED <<parse_grammar, parse_variant, parse_arg, parse_input>>
    /\ UNCHANGED <<loopVars, clientVars, replyVars, imageVars, requestVars>>

\* parse_verify_action(response.content)
ParseVerify ==
    /\ parse_pc = "input" /\ parse_grammar = "verify"
    /\ parse_output' = parse_verify_action(parse_input)
    /\ parse_pc' = "parsed"
    /\ UNCHANGED <<parse_grammar, parse_variant, parse_arg, parse_input>>
    /\ UNCHANGED <<loopVars, clientVars, replyVars, imageVars, requestVars>>

NextParse ==
    \/ ParseSetup
    \/ ParseVerify

SpecParse == InitParse /\ [][NextParse]_vars

----------------------------------------------------------------------------
(* The reasoning trace cut from one reply (verify.py:166-167, and the same *)
(* two lines in select_base_image, base_image.py:54-55)                    *)

ThinkAlphabet == {"<think>", "</think>", "x", "y"}

InitStrip ==
    /\ LoopIdle
    /\ ClientIdle
    /\ ParseIdle
    /\ ImageIdle
    /\ RequestsIdle
    /\ reply_raw \in Texts(ThinkAlphabet, MaxReplyLen)
    /\ reply_pc = "raw"
    /\ reply_content = <<>>

\* lines 166-167 on a reply that holds the opening delimiter
StripThink ==
    /\ reply_pc = "raw"
    /\ Contains(reply_raw, "<think>")
    /\ LET stripped == VerifyStripThink(reply_raw)
       IN  /\ reply_pc' = IF stripped.ok THEN "stripped" ELSE "failed"
           /\ reply_content' = stripped.content
    /\ UNCHANGED reply_raw
    /\ UNCHANGED <<loopVars, clientVars, parseVars, imageVars, requestVars>>

\* lines 166-167 on a reply without the opening delimiter: the test is false
KeepReply ==
    /\ reply_pc = "raw"
    /\ ~Contains(reply_raw, "<think>")
    /\ reply_pc' = "stripped"
    /\ reply_content' = VerifyStripThink(reply_raw).content
    /\ UNCHANGED reply_raw
    /\ UNCHANGED <<loopVars, clientVars, parseVars, imageVars, requestVars>>

NextStrip ==
    \/ StripThink
    \/ KeepReply

SpecStrip == InitStrip /\ [][NextStrip]_vars

----------------------------------------------------------------------------

Next ==
    \/ Tick
    \/ SetupEntry
    \/ SetupHead
    \/ SetupInvoke
    \/ VerifyEntry
    \/ VerifyHead
    \/ VerifyInvoke

Spec == Init /\ [][Next]_vars

\* a step of the stage itself: the interpreter goes on to the next statement,
\* and every call to the oracle, the session and the search tool returns or raises
StageStep ==
    \/ SetupEntry
    \/ SetupHead
    \/ SetupInvoke
    \/ VerifyEntry
    \/ VerifyHead
    \/ VerifyInvoke

NextLive ==
    \/ Tick
    \/ StageStep

SpecLive == Init /\ [][NextLive]_vars /\ WF_vars(StageStep)

\* the steps of a stage that is past its entry
NextWindow ==
    \/ Tick
    \/ SetupHead
    \/ SetupInvoke
    \/ VerifyHead
    \/ VerifyInvoke

SpecWindow == InitWindow /\ [][NextWindow]_vars

----------------------------------------------------------------------------
(* The workflow runs the setup stage and then the verify stage on the same *)
(* Agent State                                                             *)

MaxSeqSteps == 2            \* max_steps ranges over 0..MaxSeqSteps

\* the workflow enters the setup stage: first round, or the round after a failed verify
InitSequence ==
    /\ ClientIdle
    /\ ParseIdle
    /\ ReplyIdle
    /\ ImageIdle
    /\ RequestsIdle
    /\ loop = "setup"
    /\ max_steps \in 0..MaxSeqSteps
    /\ pc = "entry"
    /\ step = 0
    /\ messages = <<>>
    /\ prefix_messages = 0
    /\ commands = <<>>
    /\ input_messages = <<>>
    /\ success = FALSE
    /\ issue = None
    /\ result = Pending
    /\ state_exception = "None"
    /\ state_session = "live"
    /\ \E t \in {0, 1} :
          /\ state_trials = t
          /\ state_verify_messages = IF t = 0 THEN <<>> ELSE EarlierVerifyMessages
          /\ state_setup_messages = IF t = 0 THEN <<>> ELSE EarlierSetupMessages
    /\ state_start_time = 0
    /\ now = 0
    /\ invocations = 0
    /\ sent = <<>>
    /\ returned = <<>>
    /\ acts = <<>>
    /\ raised = "None"

\* the setup stage has returned: its result is merged into the Agent State
\* (setup_messages is appended to, exception is overwritten) and the verify
\* stage is entered with the same max_steps
Handover ==
    /\ loop = "setup" /\ pc = "done"
    /\ result.kind \in {"return", "exception"}
    /\ IF result.kind = "return"
       THEN /\ state_setup_messages' = state_setup_messages \o result.setup_messages
            /\ UNCHANGED state_exception
       ELSE /\ state_exception' = result.exception
            /\ UNCHANGED state_setup_messages
    /\ loop' = "verify"
    /\ pc' = "entry"
    /\ step' = 0
    /\ messages' = <<>>
    /\ prefix_messages' = 0
    /\ commands' = <<>>
    /\ input_messages' = <<>>
    /\ result' = Pending
    /\ invocations' = 0
    /\ sent' = <<>>
    /\ returned' = <<>>
    /\ acts' = <<>>
    /\ raised' = "None"
    /\ UNCHANGED <<max_steps, success, issue, now, state_session,
                   state_verify_messages, state_trials, state_start_time>>
    /\ UNCHANGED outsideLoop

NextSequence ==
    \/ SetupEntry
    \/ SetupHead
    \/ SetupInvoke
    \/ Handover
    \/ VerifyEntry
    \/ VerifyHead
    \/ VerifyInvoke

SpecSequence == InitSequence /\ [][NextSequence]_vars

----------------------------------------------------------------------------
(* Properties *)

Last(s) == s[Len(s)]

\* the stage has received at least one reply that it stored in its history
HasReply == Len(messages) > prefix_messages

\* the content of the last oracle reply stored in the history of this execution
LastReplyContent ==
    LET idx == { i \in (prefix_messages + 1)..Len(messages) : messages[i].role = "ai" }
    IN  messages[CHOOSE i \in idx : \A j \in idx : j <= i].content

\* the text the oracle placed between the tags open and close
TextBetween(c, open, close) == Split0(AfterFirst(c, open), close)

\* the reply carries an issue action and no command tag
IsIssueReply(c) == Contains(c, "<issue>") /\ ~Contains(c, "<command>")

AllActs(kind) == \A i \in 1..Len(acts) : acts[i].action = kind

\* C1: in both loops the step counter never exceeds max_steps and one loop
\* execution invokes the oracle at most max_steps times, whatever the replies.
StepCounterBounded ==
    /\ step <= max_steps
    /\ invocations <= max_steps

\* a setup execution that used its whole budget, an unparseable reply included
StepCounterBoundedWitness ==
    /\ loop = "setup" /\ pc = "done"
    /\ max_steps = 3 /\ step = 3 /\ invocations = 3
    /\ \E i \in 1..Len(acts) : acts[i].action = "none"

\* a terminal action (stop in setup, issue in verify) has been received
TerminalReceived == \E i \in 1..Len(acts) : acts[i].action \in {"stop", "issue"}

\* C2: once a terminal action has been received, the loop execution invokes
\* the oracle no more and sends nothing more to the session or the search tool.
NothingAfterTerminal ==
    [][TerminalReceived => (invocations' = invocations /\ sent' = sent /\ pc' = "done")]_vars

\* a verify execution that ran a command and then received an issue
NothingAfterTerminalWitness ==
    /\ loop = "verify" /\ pc = "done"
    /\ Len(acts) = 2 /\ acts[1].action = "command" /\ acts[2].action = "issue"
    /\ Len(sent) = 1 /\ invocations = 2

\* C3: in both loops an unparseable reply does not end the loop: the format
\* guidance is appended to the history after the reply, the step it consumed
\* is the only one, no exception is captured and the loop goes on.
UnparseableReprompts ==
    [][(pc = "invoke" /\ Len(acts') = Len(acts) + 1 /\ Last(acts').action = "none")
         => /\ pc' = "head"
            /\ result' = Pending
            /\ step' = step
            /\ Len(messages') = Len(messages) + 2
            /\ Last(messages') = HumanMessage(<<"Observation:">> \o FormatGuidance)]_vars

\* C4: in the verify loop a reply that carries an issue whose text is "none"
\* in any letter case, and no command tag, ends the loop at that step with
\* success true and issue None.
NoneIssueSucceeds ==
    (/\ loop = "verify"
     /\ HasReply
     /\ IsIssueReply(LastReplyContent)
     /\ Lower(TextBetween(LastReplyContent, "<issue>", "</issue>")) = <<"none">>)
    => /\ pc = "done"
       /\ result.kind = "return"
       /\ result.success = TRUE
       /\ result.issue = None
       /\ step = Len(acts)

\* the upper-case sentinel arrives on the second step
NoneIssueSucceedsWitness ==
    /\ loop = "verify" /\ pc = "done" /\ step = 2
    /\ HasReply
    /\ LastReplyContent = <<"<issue>", "NONE", "</issue>">>
    /\ result.kind = "return" /\ result.success = TRUE

\* C5: in the verify loop an issue whose text is anything but "none" (in any
\* letter case), the empty and the whitespace-only text included, ends the
\* loop with success false.
OtherIssueFails ==
    (/\ loop = "verify"
     /\ HasReply
     /\ IsIssueReply(LastReplyContent)
     /\ Lower(Strip(TextBetween(LastReplyContent, "<issue>", "</issue>"))) # <<"none">>)
    => /\ pc = "done"
       /\ result.kind = "return"
       /\ result.success = FALSE

\* C6: when the verify loop ends on an issue that reports a problem, the issue
\* text it returns is the text the oracle placed between the issue tags.
IssueTextReturned ==
    (/\ loop = "verify" /\ pc = "done"
     /\ result.kind = "return"
     /\ acts # <<>> /\ Last(acts).action = "issue"
     /\ result.success = FALSE)
    => result.issue = TextBetween(LastReplyContent, "<issue>", "</issue>")

\* no fatal condition: nothing captured upstream, the wall-clock budget not
\* exceeded, every oracle call answered, no command failed in the session
Undisturbed ==
    /\ state_exception = "None"
    /\ Elapsed <= GLOBAL_TIMEOUT
    /\ Len(acts) = invocations
    /\ ~(result.kind = "exception" /\ result.exception = "SessionError")

\* C7: with a step budget N >= 1 and no fatal condition, a loop whose every
\* reply is a valid command ends after exactly N steps with N recorded
\* commands and no exception; verify returns success false.
AllCommandsExhaustBudget ==
    (pc = "done" /\ max_steps >= 1 /\ AllActs("command") /\ Undisturbed)
    => /\ result.kind = "return"
       /\ step = max_steps
       /\ invocations = max_steps
       /\ Len(result.commands) = max_steps
       /\ (loop = "verify" => result.success = FALSE)

\* budget 3, three commands
AllCommandsExhaustBudgetWitness ==
    /\ pc = "done" /\ max_steps = 3 /\ AllActs("command") /\ Undisturbed
    /\ result.kind = "return" /\ Len(result.commands) = 3

\* the replies so far are k unparseable ones followed by a stop
UnparseableThenStop ==
    /\ acts # <<>>
    /\ Last(acts).action = "stop"
    /\ \A i \in 1..(Len(acts) - 1) : acts[i].action = "none"

\* C8: in the setup loop k unparseable replies followed by a stop end the loop
\* after exactly k+1 steps and k+1 oracle invocations, with no recorded
\* command and no exception.
UnparseableThenStopEnds ==
    (loop = "setup" /\ UnparseableThenStop)
    => /\ pc = "done"
       /\ result.kind = "return"
       /\ step = Len(acts)
       /\ invocations = Len(acts)
       /\ result.commands = <<>>
       /\ result.setup_commands = <<>>

\* one unparseable reply, then stop
UnparseableThenStopEndsWitness ==
    /\ loop = "setup" /\ UnparseableThenStop /\ Len(acts) = 2
    /\ pc = "done" /\ step = 2 /\ max_steps = 3

\* C9: in the setup loop an iteration that starts with more than the 30-minute
\* budget elapsed does not invoke the oracle and ends the loop with a
\* TimeoutError captured, also when no step has been executed yet.
TimeoutBeforeOracle ==
    [][(/\ loop = "setup" /\ pc = "head"
        /\ step < max_steps
        /\ Elapsed > GLOBAL_TIMEOUT
        /\ now' = now)
         => /\ pc' = "done"
            /\ result' = [kind |-> "exception", exception |-> "TimeoutError"]
            /\ invocations' = invocations
            /\ step' = step]_vars

\* the budget is found exceeded before the first step
TimeoutBeforeOracleWitness ==
    /\ loop = "setup" /\ pc = "done"
    /\ step = 0 /\ invocations = 0 /\ max_steps > 0
    /\ result.kind = "exception" /\ result.exception = "TimeoutError"

\* C10: in both loops no oracle call is made when the time elapsed since the
\* start timestamp exceeds the budget: the check precedes every call.
OracleCallWithinBudget ==
    pc = "invoke" => Elapsed <= GLOBAL_TIMEOUT

\* C11: one call of invoke makes at most 5 attempts; it returns the reply of
\* the first attempt that succeeds, and when 5 attempts have failed it raises
\* and makes no sixth.
AtMostFiveAttempts ==
    \A c \in Callers :
        /\ attempt[c] <= 5
        /\ failed[c] <= attempt[c]
        /\ (cl_pc[c] \in {"write", "returned"}
              => cl_response[c] = attempt[c] /\ failed[c] = attempt[c] - 1)
        /\ (cl_raised[c] = "RetryError" => attempt[c] = 5 /\ failed[c] = 5)
        /\ (failed[c] = 5 => cl_pc[c] = "raised" /\ cl_raised[c] = "RetryError")

\* one caller gave up after five failures, the other got its reply on the third attempt
AtMostFiveAttemptsWitness ==
    /\ cl_raised["a"] = "RetryError" /\ attempt["a"] = 5
    /\ cl_pc["b"] = "returned" /\ cl_response["b"] = 3 /\ failed["b"] = 2

\* C12: an exception raised inside a wrapped stage (timeout, oracle failure,
\* session failure, internal error) is not propagated: the stage returns a
\* result whose exception field holds that exception.
ExceptionCaptured ==
    /\ result.kind # "propagated"
    /\ raised # "None"
         => /\ pc = "done"
            /\ result = [kind |-> "exception", exception |-> raised]

\* a timeout, raised by the loop itself after two steps
ExceptionCapturedWitness ==
    /\ loop = "setup" /\ pc = "done" /\ step = 2
    /\ raised = "TimeoutError"
    /\ result.kind = "exception"

\* C13: a stage entered with an exception already captured in the Agent State
\* re-raises it at entry: no oracle invocation, no command, and the stage's
\* result carries that exception.
UpstreamExceptionReraised ==
    state_exception # "None"
      => /\ invocations = 0
         /\ sent = <<>>
         /\ pc # "invoke"
         /\ (pc = "done" => result = [kind |-> "exception", exception |-> state_exception])

\* the arguments of the command actions among as, in order
RECURSIVE CommandsOf(_)
CommandsOf(as) ==
    IF as = <<>> THEN <<>>
    ELSE IF Head(as).action = "command"
         THEN <<Head(as).args>> \o CommandsOf(Tail(as))
         ELSE CommandsOf(Tail(as))

\* the stage's parser applied to a stored reply
ParsedBy(lp, c) == IF lp = "setup" THEN parse_setup_action(c) ELSE parse_verify_action(c)

\* the loop left through its while test: the budget ran out before a terminal action
BudgetExhausted ==
    /\ pc = "done"
    /\ result.kind = "return"
    /\ ~TerminalReceived

\* C17: a loop that ends on budget exhaustion returns the whole history (the
\* prefix, then every reply followed by its observation, in order) and the
\* whole list of executed commands, and no exception.
ExhaustedReturnsEverything ==
    BudgetExhausted
      => /\ Len(acts) = max_steps
         /\ Len(result.messages) = prefix_messages + 2 * max_steps
         /\ SubSeq(result.messages, 1, 2) = (IF loop = "setup" THEN SetupPrefix ELSE VerifyPrefix)
         /\ \A k \in 1..max_steps :
               /\ result.messages[prefix_messages + 2 * k - 1].role = "ai"
               /\ ParsedBy(loop, result.messages[prefix_messages + 2 * k - 1].content) = acts[k]
               /\ result.messages[prefix_messages + 2 * k].role = "human"
               /\ Head(result.messages[prefix_messages + 2 * k].content) = "Observation:"
         /\ result.commands = CommandsOf(acts)
         /\ raised = "None"

\* three setup steps: an unparseable reply, a search and a command among them
ExhaustedReturnsEverythingWitness ==
    /\ loop = "setup" /\ BudgetExhausted /\ max_steps = 3
    /\ \E i, j, k \in 1..3 :
          /\ acts[i].action = "none"
          /\ acts[j].action = "search"
          /\ acts[k].action = "command"
    /\ Len(result.commands) = 1

\* C18: a failure of a logging step (creating or listing the folder, opening
\* or writing the record) never makes invoke fail.
LoggingIsBestEffort ==
    \A c \in Callers : cl_raised[c] # "OSError"

\* C19: when the oracle invocation fails inside a loop, the loop ends at once
\* with the failure captured in the exception field, and invokes the oracle,
\* the session and the search tool no more.
OracleFailureIsFatal ==
    /\ [](raised = "OracleUnavailable"
            => /\ pc = "done"
               /\ result = [kind |-> "exception", exception |-> "OracleUnavailable"])
    /\ [][raised = "OracleUnavailable" => (invocations' = invocations /\ sent' = sent)]_vars

\* the oracle fails on the second call, after one command was run
OracleFailureIsFatalWitness ==
    /\ raised = "OracleUnavailable" /\ pc = "done"
    /\ invocations = 2 /\ Len(sent) = 1 /\ Len(acts) = 1

\* C20: every step that receives a reply, the terminal one included, appends
\* the reply and then its observation: after k completed steps the history
\* holds |prefix| + 2k messages.
HistoryTwoPerStep ==
    (pc = "head" \/ (pc = "done" /\ result.kind = "return"))
      => Len(messages) = prefix_messages + 2 * Len(acts)

\* the window of the stage
WindowOf(lp) ==
    IF lp = "setup" THEN SETUP_CONVERSATION_WINDOW ELSE VERIFY_CONVERSATION_WINDOW

\* the messages a stage puts between the prefix and the trailing conversation
MarkerOf(lp) == IF lp = "setup" THEN 1 ELSE 0

\* C14: in both loops the prompt sent to the oracle begins with the whole
\* instructional prefix and its trailing conversation part has at most W
\* messages (5 in setup, 10 in verify), however long the history is.
PromptBounded ==
    pc = "invoke"
      => /\ Len(input_messages) >= prefix_messages
         /\ SubSeq(input_messages, 1, prefix_messages) = SubSeq(messages, 1, prefix_messages)
         /\ SubSeq(input_messages, 1, 2) = (IF loop = "setup" THEN SetupPrefix ELSE VerifyPrefix)
         /\ Len(input_messages) - prefix_messages - MarkerOf(loop) <= WindowOf(loop)
         /\ (loop = "setup" => Len(input_messages) <= prefix_messages + 1 + 5)
         /\ (loop = "verify" => Len(input_messages) <= prefix_messages + 10)

\* verify builds its seventh prompt from a history of twelve messages after the prefix
PromptBoundedWitness ==
    /\ loop = "verify" /\ pc = "invoke"
    /\ Len(messages) = prefix_messages + 12
    /\ Len(input_messages) = prefix_messages + 10

\* the text holds a well-formed pair: the opening tag and, after it, the closing tag
HasTagPair(c, open, close) ==
    Contains(c, open) /\ Contains(AfterFirst(c, open), close)

\* C15: with the setup grammar every reply that holds both a
\* <command>...</command> tag and a <stop></stop> tag parses as a command,
\* whatever the command text, the empty text included.
CommandBeatsStop ==
    (/\ parse_pc = "parsed" /\ parse_grammar = "setup"
     /\ HasTagPair(parse_input, "<command>", "</command>")
     /\ HasTagPair(parse_input, "<stop>", "</stop>"))
    => parse_output.action = "command"

\* C16: for each variant and every argument text without that variant's tags,
\* parsing the rendered tag text gives back the variant and the argument text.
ParserRoundTrip ==
    (parse_pc = "parsed" /\ parse_variant # "raw")
    => /\ parse_output.action = parse_variant
       /\ parse_output.args = (IF parse_variant = "stop" THEN None ELSE parse_arg)

\* the arguments of the actions among as whose variant is in kinds, in order
RECURSIVE ArgsOf(_, _)
ArgsOf(as, kinds) ==
    IF as = <<>> THEN <<>>
    ELSE IF Head(as).action \in kinds
         THEN <<Head(as).args>> \o ArgsOf(Tail(as), kinds)
         ELSE ArgsOf(Tail(as), kinds)

\* s is a prefix of t
IsPrefix(s, t) == Len(s) <= Len(t) /\ SubSeq(t, 1, Len(s)) = s

\* C21: at every point of a loop execution the executed-commands list is the
\* sequence of the argument texts of the command actions received so far, in
\* the order they went to the session; search, stop, issue and unparseable
\* replies add nothing, and no entry is removed or reordered.
CommandsAreCommandActions ==
    /\ [](/\ commands = ArgsOf(acts, {"command"})
          /\ IsPrefix(sent, ArgsOf(acts, {"command", "search"})))
    /\ [][/\ IsPrefix(commands, commands')
           /\ (Len(acts') = Len(acts) + 1 /\ Last(acts').action # "command"
                 => commands' = commands)]_vars

\* the same command twice with a search in between
CommandsAreCommandActionsWitness ==
    /\ loop = "setup" /\ pc = "done" /\ result.kind = "return"
    /\ Len(acts) = 3
    /\ acts[1].action = "command" /\ acts[2].action = "search" /\ acts[3] = acts[1]
    /\ result.commands = <<acts[1].args, acts[1].args>>

\* C22: the history is append-only within one loop execution: after every
\* step the history before the step is a prefix of the history after it.
HistoryAppendOnly ==
    [][IsPrefix(messages, messages')]_vars

\* a second setup round: the prefix holds the earlier verify messages, then
\* three replies and two observations
HistoryAppendOnlyWitness ==
    /\ loop = "setup" /\ pc = "done" /\ result.kind = "return"
    /\ SubSeq(messages, 1, prefix_messages) = SetupPrefix \o EarlierVerifyMessages
    /\ Len(messages) = prefix_messages + 5
    /\ Last(messages).role = "ai"

\* an issue action has been received
IssueReceived == \E i \in 1..Len(acts) : acts[i].action = "issue"

\* C23: in the verify loop budget exhaustion is told apart from every issue
\* report: the returned result has success false and issue None if and only
\* if the loop ended without receiving an issue action.
ExhaustionDistinguished ==
    (loop = "verify" /\ pc = "done" /\ result.kind = "return")
      => ((result.success = FALSE /\ result.issue = None) <=> ~IssueReceived)

\* two commands use up a budget of two
ExhaustionDistinguishedWitness ==
    /\ loop = "verify" /\ pc = "done" /\ result.kind = "return"
    /\ max_steps = 2 /\ Len(acts) = 2 /\ ~IssueReceived
    /\ result.success = FALSE /\ result.issue = None

\* the messages of ms all occur in p
AllIn(ms, p) == \A i \in 1..Len(ms) : \E j \in 1..Len(p) : p[j] = ms[i]

\* the stage is blocked in its first oracle call
FirstPrompt(lp) == loop = lp /\ pc = "invoke" /\ step = 1

OpenTag(variant) ==
    CASE variant = "command" -> "<command>"
      [] variant = "search"  -> "<search>"
      [] variant = "issue"   -> "<issue>"
      [] variant = "stop"    -> "<stop>"

CloseTag(variant) ==
    CASE variant = "command" -> "</command>"
      [] variant = "search"  -> "</search>"
      [] variant = "issue"   -> "</issue>"
      [] variant = "stop"    -> "</stop>"

\* C25: the parser returns an action only for a well-formed tag, an opening
\* tag followed by its matching closing tag: a reply with an opening tag and
\* no closing tag is not parsed as that variant, and no text outside the tag
\* pair becomes part of the action's argument.
OnlyWellFormedTags ==
    (parse_pc = "parsed" /\ parse_output.action # "none")
    => LET open  == OpenTag(parse_output.action)
           close == CloseTag(parse_output.action)
       IN  /\ HasTagPair(parse_input, open, close)
           /\ (parse_output.action # "stop"
                 => Len(parse_output.args) <= Len(TextBetween(parse_input, open, close)))

\* the last reply stored holds a command tag and an issue tag
BothTagsReply ==
    /\ HasReply
    /\ Contains(LastReplyContent, "<command>")
    /\ Contains(LastReplyContent, "<issue>")

\* C26: with the verify grammar a reply that holds both a command tag and an
\* issue tag parses as a command: it does not end the verify loop and does not
\* set the success flag.
CommandBeatsIssue ==
    (loop = "verify" /\ BothTagsReply)
      => /\ Last(acts).action = "command"
         /\ ~IssueReceived
         /\ success = FALSE
         /\ (pc = "done" /\ result.kind = "return"
               => step = max_steps /\ result.success = FALSE /\ result.issue = None)

\* the issue tag comes first in the reply, the command after it was sent to
\* the session and the loop goes on
CommandBeatsIssueWitness ==
    /\ loop = "verify" /\ pc = "head" /\ step < max_steps
    /\ BothTagsReply
    /\ Head(LastReplyContent) = "<issue>"
    /\ commands = << <<"tox">> >> /\ sent = << <<"tox">> >>

\* the text after the last occurrence of t (t must occur)
RECURSIVE AfterLast(_, _)
AfterLast(s, t) ==
    IF Contains(AfterFirst(s, t), t) THEN AfterLast(AfterFirst(s, t), t) ELSE AfterFirst(s, t)

\* C27: whenever a reply holds the reasoning delimiter, the text kept for
\* parsing and for the history is the whole content that follows the closing
\* delimiter, also when the opening delimiter has no closing one or the
\* closing one occurs more than once, and the reply is never made a failure.
ReasoningTraceCut ==
    (reply_pc # "raw" /\ Contains(reply_raw, "<think>"))
      => /\ reply_pc = "stripped"
         /\ Contains(reply_raw, "</think>")
               => \/ reply_content = AfterFirst(reply_raw, "</think>")
                  \/ reply_content = AfterLast(reply_raw, "</think>")

\* the number of trailing messages the window keeps
WindowSize == Min(WindowOf(loop), Len(messages) - prefix_messages)

\* C28: in both loops the prompt sent to the oracle at each step is exactly
\* prefix ++ window_marker ++ the last min(W, len(history) - |prefix|) messages
\* of the history, the window marker being a single message and W being 5 for
\* setup and 10 for verify.
PromptIsPrefixMarkerWindow ==
    pc = "invoke"
      => /\ Len(input_messages) = prefix_messages + 1 + WindowSize
         /\ SubSeq(input_messages, 1, prefix_messages) = SubSeq(messages, 1, prefix_messages)
         /\ input_messages[prefix_messages + 1] \notin
                { messages[i] : i \in 1..Len(messages) }
         /\ SubSeq(input_messages, prefix_messages + 2, Len(input_messages))
               = LastN(messages, WindowSize)

\* C28 amended: in the setup loop the prompt is exactly prefix ++
\* window_marker ++ the last min(5, len(history) - |prefix|) messages, the
\* marker being the one commands-history message; in the verify loop it is
\* exactly prefix ++ the last min(10, len(history) - |prefix|) messages, with
\* no window marker.
PromptShapePerLoop ==
    pc = "invoke"
      => /\ SubSeq(input_messages, 1, prefix_messages) = SubSeq(messages, 1, prefix_messages)
         /\ Len(input_messages) = prefix_messages + MarkerOf(loop) + WindowSize
         /\ (loop = "setup" => input_messages[prefix_messages + 1] = CommandsHistory(commands))
         /\ SubSeq(input_messages, prefix_messages + MarkerOf(loop) + 1, Len(input_messages))
               = LastN(messages, WindowSize)

\* setup builds a prompt from a history of eight messages after the prefix:
\* the marker names the four commands run, five messages follow it
PromptShapePerLoopWitness ==
    /\ loop = "setup" /\ pc = "invoke"
    /\ Len(messages) = prefix_messages + 8
    /\ Len(commands) = 4
    /\ Len(input_messages) = prefix_messages + 6
    /\ input_messages[prefix_messages + 2] = messages[Len(messages) - 4]

\* the rendered result reports a failure: nonzero exit status, error output
ReportsFailure(out) == Head(out) = "exit 1"

\* this step dispatched a command and the session returned a failing result
FailedCommandStep ==
    /\ pc = "invoke"
    /\ Len(returned') = Len(returned) + 1
    /\ Last(acts').action = "command"
    /\ ReportsFailure(Last(returned'))

\* the step budget and the wall-clock budget allow another step
BudgetRemains ==
    /\ step < max_steps
    /\ loop = "setup" => Elapsed <= GLOBAL_TIMEOUT

\* C29: a dispatched command whose result reports failure is not an engine
\* error: the rendered result is appended as an ordinary observation, no
\* exception is captured, the loop does not end, and the next step invokes the
\* oracle again if budget remains.
CommandFailureIsObservation ==
    /\ [][FailedCommandStep
            => /\ Len(messages') = Len(messages) + 2
               /\ Last(messages') = HumanMessage(<<"Observation:">> \o Last(returned'))
               /\ pc' = "head"
               /\ result' = Pending
               /\ raised' = "None"]_vars
    /\ [][(/\ pc = "head" /\ returned # <<>> /\ ReportsFailure(Last(returned))
           /\ Last(acts).action = "command"
           /\ BudgetRemains /\ now' = now)
            => pc' = "invoke" /\ step' = step + 1 /\ result' = Pending]_vars

\* the first command failed, and the oracle is being asked for the second step
CommandFailureIsObservationWitness ==
    /\ pc = "invoke" /\ step = 2
    /\ Len(returned) = 1 /\ ReportsFailure(returned[1])
    /\ acts[1].action = "command"
    /\ Last(messages) = HumanMessage(<<"Observation:", "exit 1", "stderr">>)
    /\ raised = "None" /\ result = Pending

\* C30: within one call of invoke a delay occurs only between two consecutive
\* attempts, never before the first attempt and never after the last, and
\* every delay is at most the cap of 120, for every jitter in 0..3 and every
\* attempt number in 1..4.
DelayOnlyBetweenAttempts ==
    \A c \in Callers :
        /\ delay[c] >= 0 /\ delay[c] <= 120
        /\ slept[c] <= 4
        /\ (attempt[c] = 0 => slept[c] = 0 /\ delay[c] = 0)
        /\ (cl_pc[c] = "attempt" => slept[c] = attempt[c])
        /\ (cl_pc[c] = "sleep" => slept[c] = attempt[c] - 1 /\ failed[c] = attempt[c])
        /\ (cl_pc[c] \in {"write", "returned", "raised"} /\ attempt[c] > 0
              => slept[c] = attempt[c] - 1)
        /\ (slept[c] > 0 => delay[c] >= WAIT_INITIAL)

\* five attempts failed: four delays, the last one after the fourth attempt
\* with the largest jitter, none after the fifth
DelayOnlyBetweenAttemptsWitness ==
    /\ cl_pc["a"] = "raised" /\ cl_raised["a"] = "RetryError"
    /\ attempt["a"] = 5 /\ slept["a"] = 4
    /\ delay["a"] = 43

\* C31: every execution of the setup loop and of the verify loop eventually
\* reaches a terminal outcome (terminal action, budget exhausted, or a fatal
\* exception captured), for every max_steps and every behaviour of the oracle,
\* provided each oracle invocation and each session command returns or fails.
LoopTerminates ==
    <>(/\ pc = "done"
       /\ \/ result.kind = "return" /\ (TerminalReceived \/ step = max_steps)
          \/ result.kind = "exception" /\ raised # "None")

\* a verify execution ended by the session failing on its second command
LoopTerminatesWitness ==
    /\ loop = "verify" /\ pc = "done" /\ step = 2
    /\ result = [kind |-> "exception", exception |-> "SessionError"]
    /\ Len(sent) = 2 /\ Len(returned) = 1

----------------------------------------------------------------------------
(* agent/base_image.py: select_base_image *)

MaxImageTrials == 6         \* the model follows select_base_image for at most MaxImageTrials trials

IMAGE_TRIALS == 5           \* the 5 of `trials < 5`

Languages == {"python", "rust", "javascript", "bash"}

\* lines 8-12: lang_to_candidate_images; found = FALSE is the KeyError of line 32
lang_to_candidate_images(lang) ==
    CASE lang = "python" ->
           [found |-> TRUE,
            images |-> {"python:3.6", "python:3.7", "python:3.8", "python:3.9",
                        "python:3.10", "python:3.11"}]
      [] lang = "rust" ->
           [found |-> TRUE,
            images |-> {"rust:1.70", "rust:1.71", "rust:1.72", "rust:1.73", "rust:1.74",
                        "rust:1.75", "rust:1.76", "rust:1.77", "rust:1.78", "rust:1.79"}]
      [] lang = "javascript" ->
           [found |-> TRUE,
            images |-> {"node:10", "node:11", "node:12", "node:13", "node:14",
                        "node:15", "node:16", "node:17", "node:18", "node:19"}]
      [] OTHER -> [found |-> FALSE, images |-> {}]

\* line 58: image in candidate_images
IsCandidate(image, lang) ==
    Len(image) = 1 /\ image[1] \in lang_to_candidate_images(lang).images

\* what the oracle can answer to the image question
ImageReplies ==
    { <<"<image>", "python:3.11", "</image>">>,
      <<"<think>", "hm", "</think>", "<image>", "rust:1.75", "</image>">>,
      <<"<image>", "node:18", "</image>", "fits">>,
      <<"<image>", "ubuntu:20.04", "</image>">>,
      <<"use", "python:3.11">>,
      <<"<think>", "<image>", "node:18", "</image>">> }

NotInListMessage == HumanMessage(<<"The image you selected is not in the candidate list">>)
WrapImageMessage == HumanMessage(<<"Please wrap the image name in a block like <image>">>)

InitImage ==
    /\ LoopIdle
    /\ ClientIdle
    /\ ParseIdle
    /\ ReplyIdle
    /\ RequestsIdle
    /\ img_pc = "entry"
    /\ img_language \in Languages
    /\ img_trials = 0
    /\ img_base_image = "None"
    /\ img_messages = <<>>
    /\ img_invocations = 0
    /\ img_result = Pending

\* the wrapped function raised e: auto_catch turns it into the result
ImageRaise(e) ==
    /\ img_pc' = "done"
    /\ img_result' = auto_catch_except(e)

\* lines 29-50: look the candidates up and build the question
ImageEntry ==
    /\ img_pc = "entry"
    /\ IF lang_to_candidate_images(img_language).found
       THEN /\ img_messages' = <<HumanMessage(<<"select a base image", img_language>>)>>
            /\ img_base_image' = "None"
            /\ img_trials' = 0
            /\ img_pc' = "head"
            /\ UNCHANGED img_result
       ELSE /\ ImageRaise("KeyError")
            /\ UNCHANGED <<img_messages, img_base_image, img_trials>>
    /\ UNCHANGED <<img_language, img_invocations>>
    /\ UNCHANGED <<loopVars, clientVars, parseVars, replyVars, requestVars>>

\* line 51: while not base_image or trials < 5
ImageLoopTest(base_image, trials) == base_image = "None" \/ trials < IMAGE_TRIALS

\* lines 51-52, and lines 74-79 when the while test fails
ImageHead ==
    /\ img_pc = "head"
    /\ img_trials < MaxImageTrials
    /\ IF ImageLoopTest(img_base_image, img_trials)
       THEN /\ img_trials' = img_trials + 1
            /\ img_pc' = "invoke"
            /\ UNCHANGED img_result
       ELSE /\ img_pc' = "done"
            /\ img_result' = auto_catch_return([kind |-> "return",
                                                messages |-> img_messages,
                                                base_image |-> img_base_image])
            /\ UNCHANGED img_trials
    /\ UNCHANGED <<img_language, img_base_image, img_messages, img_invocations>>
    /\ UNCHANGED <<loopVars, clientVars, parseVars, replyVars, requestVars>>

\* lines 53-73 for one reply of the oracle, lines 74-79 after the break
ImageStep(reply) ==
    LET stripped == VerifyStripThink(reply)
        content  == stripped.content
        image    == Split0(Split1(content, "<image>"), "</image>")
    IN  IF ~stripped.ok
        THEN /\ ImageRaise("IndexError")
             /\ UNCHANGED <<img_base_image, img_messages>>
        ELSE IF Contains(content, "<image>")
        THEN IF IsCandidate(image, img_language)
             THEN /\ img_base_image' = image[1]
                  /\ img_pc' = "done"
                  /\ img_result' = auto_catch_return([kind |-> "return",
                                                      messages |-> img_messages,
                                                      base_image |-> image[1]])
                  /\ UNCHANGED img_messages
             ELSE /\ img_messages' = img_messages \o <<AIMessage(content), NotInListMessage>>
                  /\ img_pc' = "head"
                  /\ UNCHANGED <<img_base_image, img_result>>
        ELSE /\ img_messages' = img_messages \o <<AIMessage(content), WrapImageMessage>>
             /\ img_pc' = "head"
             /\ UNCHANGED <<img_base_image, img_result>>

\* line 53: llm.invoke returns a reply or raises
ImageInvoke ==
    /\ img_pc = "invoke"
    /\ img_invocations' = img_invocations + 1
    /\ \/ \E reply \in ImageReplies : ImageStep(reply)
       \/ /\ ImageRaise("RetryError")
          /\ UNCHANGED <<img_base_image, img_messages>>
    /\ UNCHANGED <<img_language, img_trials>>
    /\ UNCHANGED <<loopVars, clientVars, parseVars, replyVars, requestVars>>

NextImage ==
    \/ ImageEntry
    \/ ImageHead
    \/ ImageInvoke

SpecImage == InitImage /\ [][NextImage]_vars

\* C32: select_base_image ends after at most 5 oracle invocations whatever the
\* oracle answers: it never makes a sixth invocation, even when no reply names
\* an image of the candidate list.
AtMostFiveImageInvocations == img_invocations <= IMAGE_TRIALS

\* C33: invocations that share one log folder and overlap in time write their
\* records under distinct numbers: no record file is written by two invocations.
DistinctRecordNumbers ==
    \A w1 \in writes : \A w2 \in writes : w1[2] = w2[2] => w1[1] = w2[1]

\* C34: a stage that ends with a captured exception after at least one step
\* returns the exception field and nothing else: the messages and commands of
\* those steps are not in the result, the stage itself has not touched the
\* Agent State, and merging the result leaves the state's message fields as
\* they were before the stage.
ExceptionResultOnly ==
    [][ /\ (pc # "done" /\ pc' = "done" /\ result'.kind = "exception" /\ step' >= 1)
           => /\ DOMAIN result' = {"kind", "exception"}
              /\ UNCHANGED stateVars
        /\ (loop = "setup" /\ pc = "done" /\ result.kind = "exception" /\ step >= 1
            /\ loop' = "verify")
           => UNCHANGED <<state_setup_messages, state_verify_messages>> ]_vars

ExceptionResultOnlyWitness ==
    /\ loop = "setup" /\ pc = "done" /\ step >= 2
    /\ result.kind = "exception"
    /\ Len(messages) > prefix_messages
    /\ commands # <<>>

----------------------------------------------------------------------------
(* swe_task_crawling/utils.py: wrapped_requests_get *)

MaxRetriesBound == 5        \* max_retries ranges over 0..MaxRetriesBound

\* lines 120-121: the exception classes of the second handler
RetryExceptions ==
    {"RequestException", "URLError", "RemoteDisconnected", "MaxRetryError", "ConnectTimeout"}

\* what one requests.get can do: return a response or raise
RequestOutcomes == {"response", "HTTPError", "ConnectTimeout", "URLError", "UnicodeError"}

\* lines 117-121: which handler takes exception e
HandlerOf(e) ==
    IF e = "HTTPError" THEN "not_found"
    ELSE IF e \in RetryExceptions THEN "retry"
    ELSE "propagate"

InitRequests ==
    /\ LoopIdle
    /\ ClientIdle
    /\ ParseIdle
    /\ ReplyIdle
    /\ ImageIdle
    /\ rq_pc = "head"
    /\ rq_max_retries \in 0..MaxRetriesBound
    /\ rq_attempt = 0
    /\ rq_log = <<>>
    /\ rq_result = "pending"

\* a retry test that also sleeps after the last attempt
ShouldRetryAlways(att, max_retries) == att < max_retries

\* line 123: if attempt < max_retries - 1
ShouldRetry(att, max_retries) == att < max_retries - 1

\* line 113: the while test; falling off the end of the function returns None
RequestsHead ==
    /\ rq_pc = "head"
    /\ IF rq_attempt < rq_max_retries
       THEN /\ rq_pc' = "get"
            /\ UNCHANGED rq_result
       ELSE /\ rq_pc' = "done"
            /\ rq_result' = "None"
    /\ UNCHANGED <<rq_max_retries, rq_attempt, rq_log>>
    /\ UNCHANGED <<loopVars, clientVars, parseVars, replyVars, imageVars>>

\* lines 114-128 up to the sleep: one requests.get and the handler of what it raised
RequestsGet ==
    /\ rq_pc = "get"
    /\ \E o \in RequestOutcomes :
          /\ rq_log' = Append(rq_log, o)
          /\ IF o = "response"
             THEN rq_pc' = "done" /\ rq_result' = "response"
             ELSE IF HandlerOf(o) = "not_found"
             THEN rq_pc' = "done" /\ rq_result' = "None"
             ELSE IF HandlerOf(o) = "propagate"
             THEN rq_pc' = "done" /\ rq_result' = "raised"
             ELSE IF ShouldRetry(rq_attempt, rq_max_retries)
             THEN rq_pc' = "sleep" /\ UNCHANGED rq_result
             ELSE rq_pc' = "done" /\ rq_result' = "None"
    /\ UNCHANGED <<rq_max_retries, rq_attempt>>
    /\ UNCHANGED <<loopVars, clientVars, parseVars, replyVars, imageVars>>

\* lines 124-125: time.sleep(20), then attempt += 1
RequestsSleep ==
    /\ rq_pc = "sleep"
    /\ rq_log' = Append(rq_log, "sleep")
    /\ rq_attempt' = rq_attempt + 1
    /\ rq_pc' = "head"
    /\ UNCHANGED <<rq_max_retries, rq_result>>
    /\ UNCHANGED <<loopVars, clientVars, parseVars, replyVars, imageVars>>

NextRequests ==
    \/ RequestsHead
    \/ RequestsGet
    \/ RequestsSleep

SpecRequests == InitRequests /\ [][NextRequests]_vars

\* the requests made so far
RequestsMade == { i \in 1..Len(rq_log) : rq_log[i] # "sleep" }

\* every request so far hit a connection error
AllConnectionErrors == \A i \in RequestsMade : HandlerOf(rq_log[i]) = "retry"

\* C35: wrapped_requests_get makes at most max_retries requests; the first
\* response obtained is what it returns; when every attempt hits a connection
\* error it returns None without raising, having made max_retries requests; a
\* sleep only ever stands between a failed request and the next request, never
\* first and never after the last failed attempt.
RequestsAreBounded ==
    /\ Cardinality(RequestsMade) <= rq_max_retries
    /\ (\E i \in RequestsMade : rq_log[i] = "response")
          => /\ rq_log[Len(rq_log)] = "response"
             /\ \A i \in RequestsMade : rq_log[i] = "response" => i = Len(rq_log)
             /\ rq_pc = "done" /\ rq_result = "response"
    /\ (rq_pc = "done" /\ AllConnectionErrors)
          => /\ rq_result = "None"
             /\ Cardinality(RequestsMade) = rq_max_retries
    /\ \A i \in 1..Len(rq_log) :
          rq_log[i] = "sleep"
             => /\ i > 1 /\ HandlerOf(rq_log[i - 1]) = "retry"
                /\ i < Len(rq_log) => rq_log[i + 1] # "sleep"
                /\ rq_pc = "done" => i < Len(rq_log)

RequestsAreBoundedWitness ==
    /\ rq_pc = "done" /\ rq_max_retries = 3 /\ rq_result = "None"
    /\ rq_log = <<"ConnectTimeout", "sleep", "URLError", "sleep", "ConnectTimeout">>
====
